---------------------------- MODULE Spec2Model ----------------------------
(***************************************************************************)
(* Model of the Redis k8s charm (src/src/charm.py): two replicas of the    *)
(* application receive Juju lifecycle events; the framework dispatches     *)
(* start, leader_elected, config_changed and upgrade_charm to              *)
(* RedisCharm._on_config_changed; update_status and stop have no observer. *)
(* The environment (Juju) owns leadership, the charm configuration, the    *)
(* goal state and the reachability of the Redis service.                   *)
(*                                                                         *)
(* Strings the code splits, parses or joins (unit names, the value of      *)
(* JUJU_EXPECTED_UNITS) are sequences of one-character strings.            *)
(***************************************************************************)
EXTENDS Integers, Sequences, FiniteSets, TLC

VARIABLES
    leader,      \* the unit Juju holds as leader, or NoLeader
    config,      \* self.model.config: a mapping whose keys may include "image"
    goal,        \* hookenv.goal_state(): a mapping that may have the key "units"
    ready,       \* whether the Redis service accepts connections
    unitStatus,  \* self.model.unit.status of every replica
    appStatus,   \* self.model.app.status (application status)
    podSpec,     \* what pod.set_spec last stored for the application
    last,        \* what the latest handler invocation did
    peers,       \* what an evaluation of the property expected_units returned
    probes,      \* the calls of RedisClient.is_ready made so far, with their results
    builds       \* the builds of PodSpecBuilder made so far, with their results

vars == <<leader, config, goal, ready, unitStatus, appStatus, podSpec, last, peers,
          probes, builds>>

----------------------------------------------------------------------------
(* Names *)

AppName == <<"r", "e", "d", "i", "s">>

UnitName(digits) == AppName \o <<"/">> \o digits

Redis0 == UnitName(<<"0">>)
Redis1 == UnitName(<<"1">>)
Redis2 == UnitName(<<"2">>)
Redis10 == UnitName(<<"1", "0">>)
Redis11 == UnitName(<<"1", "1">>)

\* The replicas whose handlers run in Spec.
Units == {Redis2, Redis10}

\* The unit names a goal state may list in SpecUnits.
UnitNames == {Redis0, Redis1, Redis2, Redis10, Redis11}

NoLeader == <<>>

Images == {"redis:6.0", "redis:5.0"}

\* Most units a goal state lists in Spec.
MaxGoalUnits == 1

\* Most units a goal state lists in SpecUnits.
MaxSortUnits == 3

----------------------------------------------------------------------------
(* Statuses: ops.model status classes *)

UnknownStatus == [kind |-> "unknown", msg |-> ""]
MaintenanceStatus(m) == [kind |-> "maintenance", msg |-> m]
ActiveStatus(m) == [kind |-> "active", msg |-> m]

\* Events the Juju agent delivers to a unit.
Events == {"start", "leader_elected", "config_changed", "upgrade_charm",
           "update_status", "stop"}

\* framework.observe(...) calls of RedisCharm.__init__: the events bound to
\* _on_config_changed.  No other event has an observer.
ObservedEvents == {"start", "leader_elected", "config_changed", "upgrade_charm"}

----------------------------------------------------------------------------
(* expected_units: sorted(goal_state().get("units", {}).keys(),            *)
(*                        key=lambda x: int(x.split("/")[-1]))             *)

\* Index of the last "/" of x, 0 when there is none.
LastSlash(x) ==
    LET idx == {i \in 1..Len(x) : x[i] = "/"}
    IN IF idx = {} THEN 0 ELSE CHOOSE i \in idx : \A j \in idx : j <= i

\* x.split("/")[-1]
split_last(x) == SubSeq(x, LastSlash(x) + 1, Len(x))

DigitValue(c) ==
    CASE c = "0" -> 0 [] c = "1" -> 1 [] c = "2" -> 2 [] c = "3" -> 3
      [] c = "4" -> 4 [] c = "5" -> 5 [] c = "6" -> 6 [] c = "7" -> 7
      [] c = "8" -> 8 [] c = "9" -> 9

RECURSIVE int(_)
\* int(s) of a string of decimal digits
int(s) ==
    IF Len(s) = 0 THEN 0
    ELSE 10 * int(SubSeq(s, 1, Len(s) - 1)) + DigitValue(s[Len(s)])

\* Lexicographic rank of a suffix of one or two digits (string order).
sort_key_lexicographic(x) ==
    LET d == split_last(x)
    IN IF Len(d) = 1 THEN 10 * int(d) + 0 ELSE int(d) + 1

\* key=lambda x: int(x.split("/")[-1])
sort_key(x) == int(split_last(x))

\* Insert x behind every element whose key is not greater (sorted is stable).
InsertByKey(s, x) ==
    LET before == {i \in 1..Len(s) : sort_key(s[i]) <= sort_key(x)}
        n == Cardinality(before)
    IN SubSeq(s, 1, n) \o <<x>> \o SubSeq(s, n + 1, Len(s))

RECURSIVE sorted(_)
sorted(s) ==
    IF Len(s) = 0 THEN <<>>
    ELSE InsertByKey(sorted(SubSeq(s, 1, Len(s) - 1)), s[Len(s)])

\* goal_state().get("units", {}).keys(), in the mapping's order
goal_units(g) == IF "units" \in DOMAIN g THEN g["units"] ELSE <<>>

expected_units == sorted(goal_units(goal))

RECURSIVE join(_, _)
\* sep.join(names)
join(sep, names) ==
    IF Len(names) = 0 THEN <<>>
    ELSE IF Len(names) = 1 THEN names[1]
    ELSE names[1] \o sep \o join(sep, Tail(names))

----------------------------------------------------------------------------
(* The environment's values *)

\* Charm configurations: the key "image" is absent or names an image.
Configs == {<<>>} \cup {[image |-> i] : i \in Images}

\* Sequences of distinct names from S of length at most n.
DistinctSeqs(S, n) ==
    {s \in UNION {[1..k -> S] : k \in 0..n} :
        \A i, j \in 1..Len(s) : i # j => s[i] # s[j]}

\* Goal states whose "units" lists distinct unit names in some order.
GoalStates(S, n) == {[relations |-> <<>>, units |-> s] : s \in DistinctSeqs(S, n)}

\* A goal state without the key "units".
GoalStateNoUnits == [relations |-> <<>>]

\* How a call into Juju made by the leader's handler may fail.
Faults == {"none", "goal_state", "set_spec"}

NoSpec == [absent |-> TRUE]

NotEvaluated == [evaluated |-> FALSE, value |-> <<>>]

NoInvocation == [unit |-> NoLeader, event |-> "none", trace |-> <<>>, outcome |-> "none"]

----------------------------------------------------------------------------
(* RedisCharm._make_pod_spec, RedisCharm._make_pod_resources *)

\* An image path that ignores the configuration.
image_path_fixed == "redis:6.0"

\* config["image"] (line 99).  Evaluated only where config has the key: the
\* lookup raises KeyError otherwise (see leader_outcome).
image_path == config["image"]

make_pod_spec ==
    [version |-> 3,
     containers |-> <<
        [name |-> AppName,
         imageDetails |-> [imagePath |-> image_path],
         imagePullPolicy |-> "Always",
         ports |-> <<[name |-> "redis", containerPort |-> 6379, protocol |-> "TCP"]>>,
         envConfig |->
            [JUJU_NODE_NAME |-> [field |-> [path |-> "spec.nodeName", api_version |-> "v1"]],
             JUJU_POD_NAME |-> [field |-> [path |-> "metadata.name", api_version |-> "v1"]],
             JUJU_POD_NAMESPACE |-> [field |-> [path |-> "metadata.namespace", api_version |-> "v1"]],
             JUJU_POD_IP |-> [field |-> [path |-> "status.podIP", api_version |-> "v1"]],
             JUJU_EXPECTED_UNITS |-> join(<<" ">>, expected_units),
             JUJU_APPLICATION |-> AppName],
         kubernetes |->
            [readinessProbe |->
                [tcpSocket |-> [port |-> 6379],
                 initialDelaySeconds |-> 3,
                 periodSeconds |-> 3]]]>>]

make_pod_resources ==
    [services |-> <<
        [name |-> AppName \o <<"-", "m", "a", "s", "t", "e", "r">>,
         spec |->
            [type |-> "NodePort",
             clusterIP |-> "",
             ports |-> <<[name |-> "redis", port |-> 6379, protocol |-> "TCP"]>>,
             selector |-> [app_kubernetes_io_name |-> AppName, role |-> "master"]]]>>]

\* What pod.set_spec(spec, k8s_resources) stores.
set_spec(spec, k8s_resources) == [spec |-> spec, k8s_resources |-> k8s_resources]

----------------------------------------------------------------------------
(* The calls a handler invocation makes, in order *)

Call(c, a, m) == [call |-> c, arg |-> a, msg |-> m]

StatusWrite(st) == Call("unit.status", st.kind, st.msg)

\* The status writes of a trace, in order.
Writes(trace) == SelectSeq(trace, LAMBDA c : c.call = "unit.status")

Count(trace, c) == Len(SelectSeq(trace, LAMBDA x : x.call = c))

\* The Juju or network calls the charm makes besides is_leader and status-set.
OutboundCalls == {"goal_state", "config", "set_spec", "app.status", "is_ready", "event.defer"}

\* A handler that takes every unit for the leader.
is_leader_always(u) == TRUE

\* self.model.unit.is_leader()
is_leader(u) == leader = u

\* Where the leader's handler ends: the first call that raises, or "returned".
\* expected_units (line 83) is evaluated before config["image"] (line 99).
leader_outcome(fault) ==
    IF fault = "goal_state" THEN "GoalStateError"
    ELSE IF "image" \notin DOMAIN config THEN "KeyError"
    ELSE IF fault = "set_spec" THEN "ModelError"
    ELSE "returned"

\* A leader's handler that reports "Pod configured" before it submits the spec.
leader_trace_active_first(fault) ==
    LET out == leader_outcome(fault)
    IN  <<StatusWrite(MaintenanceStatus("Configuring pod"))>>
        \o <<Call("goal_state", IF out = "GoalStateError" THEN "raised" ELSE "ok", "")>>
        \o (IF out = "GoalStateError" THEN <<>>
            ELSE <<Call("config", IF out = "KeyError" THEN "raised" ELSE "ok", "image")>>)
        \o (IF out \in {"GoalStateError", "KeyError"} THEN <<>>
            ELSE <<StatusWrite(ActiveStatus("Pod configured")),
                   Call("set_spec", IF out = "ModelError" THEN "raised" ELSE "ok", "")>>)

\* The calls of _handle_leader_config_change up to where it ends.
leader_trace(fault) ==
    LET out == leader_outcome(fault)
    IN  <<StatusWrite(MaintenanceStatus("Configuring pod"))>>
        \o <<Call("goal_state", IF out = "GoalStateError" THEN "raised" ELSE "ok", "")>>
        \o (IF out = "GoalStateError" THEN <<>>
            ELSE <<Call("config", IF out = "KeyError" THEN "raised" ELSE "ok", "image")>>)
        \o (IF out \in {"GoalStateError", "KeyError"} THEN <<>>
            ELSE <<Call("set_spec", IF out = "ModelError" THEN "raised" ELSE "ok", "")>>)
        \o (IF out = "returned"
            THEN <<StatusWrite(ActiveStatus("Pod configured"))>> ELSE <<>>)

\* The calls of _handle_non_leader_config_change.
non_leader_trace == <<StatusWrite(ActiveStatus(""))>>

\* The unit status after the writes of trace, given the one before.
StatusAfter(before, trace) ==
    LET w == Writes(trace)
    IN IF Len(w) = 0 THEN before ELSE [kind |-> w[Len(w)].arg, msg |-> w[Len(w)].msg]

----------------------------------------------------------------------------
(* Handlers *)

\* RedisCharm._handle_leader_config_change on unit u, for event e.
handle_leader_config_change(u, e, fault) ==
    LET out == leader_outcome(fault)
        trace == <<Call("is_leader", "True", "")>> \o leader_trace(fault)
    IN  /\ unitStatus' = [unitStatus EXCEPT ![u] = StatusAfter(@, trace)]
        /\ podSpec' = IF out = "returned"
                      THEN set_spec(make_pod_spec, [kubernetesResources |-> make_pod_resources])
                      ELSE podSpec
        /\ last' = [unit |-> u, event |-> e, trace |-> trace, outcome |-> out]
        /\ UNCHANGED <<leader, config, goal, ready, appStatus, peers, probes, builds>>

\* RedisCharm._handle_non_leader_config_change on unit u, for event e.
handle_non_leader_config_change(u, e) ==
    LET trace == <<Call("is_leader", "False", "")>> \o non_leader_trace
    IN  /\ unitStatus' = [unitStatus EXCEPT ![u] = StatusAfter(@, trace)]
        /\ last' = [unit |-> u, event |-> e, trace |-> trace, outcome |-> "returned"]
        /\ UNCHANGED <<leader, config, goal, ready, appStatus, podSpec, peers, probes, builds>>

\* RedisCharm._on_config_changed, run for every observed event.
on_config_changed(u, e, fault) ==
    /\ e \in ObservedEvents
    /\ IF is_leader(u)
       THEN handle_leader_config_change(u, e, fault)
       ELSE fault = "none" /\ handle_non_leader_config_change(u, e)

\* An event no handler observes: the framework emits it and nothing runs.
unobserved(u, e) ==
    /\ e \in Events \ ObservedEvents
    /\ last' = [unit |-> u, event |-> e, trace |-> <<>>, outcome |-> "returned"]
    /\ UNCHANGED <<leader, config, goal, ready, unitStatus, appStatus, podSpec, peers, probes, builds>>

----------------------------------------------------------------------------
(* The environment *)

\* Juju moves leadership to unit u.
LeaderElected(u) ==
    /\ leader # u
    /\ leader' = u
    /\ UNCHANGED <<config, goal, ready, unitStatus, appStatus, podSpec, last, peers, probes, builds>>

\* The operator changes the charm configuration.
ConfigSet(c) ==
    /\ c # config
    /\ config' = c
    /\ UNCHANGED <<leader, goal, ready, unitStatus, appStatus, podSpec, last, peers, probes, builds>>

\* The application is scaled: the goal state lists other units.
GoalStateSet(g) ==
    /\ g # goal
    /\ goal' = g
    /\ UNCHANGED <<leader, config, ready, unitStatus, appStatus, podSpec, last, peers, probes, builds>>

\* The Redis service becomes reachable or unreachable.
ReadinessFlips ==
    /\ ready' = ~ready
    /\ UNCHANGED <<leader, config, goal, unitStatus, appStatus, podSpec, last, peers, probes, builds>>

----------------------------------------------------------------------------
(* Specification of the charm's replicas *)

Init ==
    /\ leader = NoLeader
    /\ config = <<>>
    /\ goal = [relations |-> <<>>, units |-> <<>>]
    /\ ready = FALSE
    /\ unitStatus = [u \in Units |-> UnknownStatus]
    /\ appStatus = UnknownStatus
    /\ podSpec = NoSpec
    /\ last = NoInvocation
    /\ peers = NotEvaluated
    /\ probes = <<>>
    /\ builds = <<>>

Next ==
    \/ \E u \in Units, e \in Events, f \in Faults : on_config_changed(u, e, f)
    \/ \E u \in Units, e \in Events : unobserved(u, e)
    \/ \E u \in Units : LeaderElected(u)
    \/ \E c \in Configs : ConfigSet(c)
    \/ \E g \in GoalStates(Units, MaxGoalUnits) : GoalStateSet(g)
    \/ ReadinessFlips

Spec == Init /\ [][Next]_vars

----------------------------------------------------------------------------
(* Specification of expected_units alone: the goal state is any mapping    *)
(* without "units" or listing at most MaxSortUnits distinct unit names in  *)
(* any order, and the property is evaluated on it.                         *)

ExpectedUnitsRead ==
    /\ ~peers.evaluated
    /\ peers' = [evaluated |-> TRUE, value |-> expected_units]
    /\ UNCHANGED <<leader, config, goal, ready, unitStatus, appStatus, podSpec, last,
                   probes, builds>>

InitUnits ==
    /\ leader = NoLeader
    /\ config = <<>>
    /\ goal \in GoalStates(UnitNames, MaxSortUnits) \cup {GoalStateNoUnits}
    /\ ready = FALSE
    /\ unitStatus = [u \in Units |-> UnknownStatus]
    /\ appStatus = UnknownStatus
    /\ podSpec = NoSpec
    /\ last = NoInvocation
    /\ peers = NotEvaluated
    /\ probes = <<>>
    /\ builds = <<>>

NextUnits == ExpectedUnitsRead

SpecUnits == InitUnits /\ [][NextUnits]_vars

----------------------------------------------------------------------------
(* Specification of RedisClient alone: the service becomes reachable and   *)
(* unreachable, and is_ready is called up to MaxProbes times.              *)

MaxProbes == 5

ProbeHosts == {AppName}

ProbePorts == {6379}

\* redis.Redis(host=..., port=...): the constructor builds a client over a
\* connection pool and opens no connection (one is opened when a command is
\* sent), so it returns a client whether or not the service is reachable.
redis_Redis(host, port, reachable) == "client"

\* RedisClient.is_ready: False when the constructor raised ConnectionError,
\* True when it returned.
is_ready(host, port, reachable) ==
    IF redis_Redis(host, port, reachable) = "ConnectionError" THEN FALSE ELSE TRUE

\* RedisClient(host, port).is_ready() is called.
IsReadyCalled(host, port) ==
    /\ Len(probes) < MaxProbes
    /\ probes' = Append(probes, [host |-> host, port |-> port, reachable |-> ready,
                                 outcome |-> "returned",
                                 result |-> is_ready(host, port, ready)])
    /\ UNCHANGED <<leader, config, goal, ready, unitStatus, appStatus, podSpec, last,
                   peers, builds>>

InitProbe ==
    /\ leader = NoLeader
    /\ config = <<>>
    /\ goal = [relations |-> <<>>, units |-> <<>>]
    /\ ready \in BOOLEAN
    /\ unitStatus = [u \in Units |-> UnknownStatus]
    /\ appStatus = UnknownStatus
    /\ podSpec = NoSpec
    /\ last = NoInvocation
    /\ peers = NotEvaluated
    /\ probes = <<>>
    /\ builds = <<>>

NextProbe ==
    \/ \E h \in ProbeHosts, p \in ProbePorts : IsReadyCalled(h, p)
    \/ ReadinessFlips

SpecProbe == InitProbe /\ [][NextProbe]_vars

----------------------------------------------------------------------------
(* Specification of PodSpecBuilder alone: builders are constructed and     *)
(* asked for a pod spec and the pod resources up to MaxBuilds times, while *)
(* the goal state changes.                                                 *)

MaxBuilds == 2

BuilderNames == {AppName}

BuilderPorts == {6379, 6380}

\* Python's None, the default of the argument image_info.
PyNone == [py_none |-> TRUE]

ImageInfos == {PyNone, <<>>} \cup {[imagePath |-> i] : i \in Images}

\* PodSpecBuilder.__init__: a false image_info (None or empty) becomes {}.
PodSpecBuilder(name, port, image_info) ==
    [name |-> name, port |-> port,
     image_info |-> IF image_info \in {PyNone, <<>>} THEN <<>> ELSE image_info]

\* The property PodSpecBuilder.expected_units: it reads the goal state from
\* the hook environment each time it is evaluated.
builder_expected_units == sorted(goal_units(goal))

build_readiness_spec(self) ==
    [tcpSocket |-> [port |-> self.port], initialDelaySeconds |-> 10, periodSeconds |-> 5]

build_port_spec(self) ==
    <<[name |-> "redis", containerPort |-> self.port, protocol |-> "TCP"]>>

build_env_conf_spec(self) ==
    [JUJU_NODE_NAME |-> [field |-> [path |-> "spec.nodeName", api_version |-> "v1"]],
     JUJU_POD_NAME |-> [field |-> [path |-> "metadata.name", api_version |-> "v1"]],
     JUJU_POD_NAMESPACE |-> [field |-> [path |-> "metadata.namespace", api_version |-> "v1"]],
     JUJU_POD_IP |-> [field |-> [path |-> "status.podIP", api_version |-> "v1"]],
     JUJU_EXPECTED_UNITS |-> join(<<" ">>, builder_expected_units),
     JUJU_APPLICATION |-> self.name]

build_pod_spec(self) ==
    [version |-> 3,
     containers |-> <<[name |-> self.name,
                       imageDetails |-> self.image_info,
                       imagePullPolicy |-> "Always",
                       ports |-> build_port_spec(self),
                       envConfig |-> build_env_conf_spec(self),
                       kubernetes |-> [readinessProbe |-> build_readiness_spec(self)]]>>]

build_pod_resources(self) ==
    [kubernetesResources |->
        [services |-> <<[name |-> self.name,
                         spec |-> [type |-> "NodePort",
                                   clusterIP |-> "",
                                   ports |-> <<[name |-> "redis", port |-> 6379,
                                                protocol |-> "TCP"]>>,
                                   selector |-> [app_kubernetes_io_name |-> self.name,
                                                 role |-> "master"]]]>>]]

\* A builder is constructed from (name, port, image_info) and builds.
Build(name, port, image_info) ==
    LET self == PodSpecBuilder(name, port, image_info)
    IN  /\ Len(builds) < MaxBuilds
        /\ builds' = Append(builds, [name |-> name, port |-> port,
                                     image_info |-> image_info,
                                     spec |-> build_pod_spec(self),
                                     resources |-> build_pod_resources(self)])
        /\ UNCHANGED <<leader, config, goal, ready, unitStatus, appStatus, podSpec, last,
                       peers, probes>>

InitBuilder ==
    /\ leader = NoLeader
    /\ config = <<>>
    /\ goal \in GoalStates(Units, MaxGoalUnits)
    /\ ready = FALSE
    /\ unitStatus = [u \in Units |-> UnknownStatus]
    /\ appStatus = UnknownStatus
    /\ podSpec = NoSpec
    /\ last = NoInvocation
    /\ peers = NotEvaluated
    /\ probes = <<>>
    /\ builds = <<>>

NextBuilder ==
    \/ \E n \in BuilderNames, p \in BuilderPorts, i \in ImageInfos : Build(n, p, i)
    \/ \E g \in GoalStates(Units, MaxGoalUnits) : GoalStateSet(g)

SpecBuilder == InitBuilder /\ [][NextBuilder]_vars

----------------------------------------------------------------------------
(* Properties *)

\* A step in which a handler ran: the environment's variables are unchanged
\* and last' describes the invocation.  (An invocation that repeats the
\* previous one in every respect leaves the state as it is; the same
\* invocation under another event name does not.)
HandlerStep == UNCHANGED <<leader, config, goal, ready>>

\* The number of pod.set_spec calls of an invocation.
Submits(inv) == Count(inv.trace, "set_spec")

\* The unit number Juju gave each unit name of UnitNames.
UnitNumber(x) ==
    CASE x = Redis0 -> 0 [] x = Redis1 -> 1 [] x = Redis2 -> 2
      [] x = Redis10 -> 10 [] x = Redis11 -> 11

IsPermutation(s, t) ==
    /\ Len(s) = Len(t)
    /\ \A x \in UnitNames :
        Cardinality({i \in 1..Len(s) : s[i] = x}) = Cardinality({i \in 1..Len(t) : t[i] = x})

\* C1: every pod.set_spec call and every write of the application status is
\* made in a handler invocation of the unit that is leader at that moment; a
\* unit that is not leader submits no spec and sets no application status.
C1_OnlyLeaderSubmits ==
    [][(HandlerStep /\ (Submits(last') > 0 \/ podSpec' # podSpec
                        \/ appStatus' # appStatus
                        \/ Count(last'.trace, "app.status") > 0))
        => leader = last'.unit]_vars

\* C1 witness: the leader has submitted a spec while the other replica, not
\* leader, holds a status its own handler wrote.
C1_Witness ==
    /\ last.unit = leader
    /\ Submits(last) = 1
    /\ podSpec # NoSpec
    /\ \E u \in Units : u # leader /\ unitStatus[u] = ActiveStatus("")

\* The events of the configuration-application path the claims name.
ConfigPathEvents == {"start", "config_changed", "upgrade_charm"}

\* The status of the unit of the latest invocation.
EndStatus == unitStatus[last.unit]

ImageOf(p) == p.spec.containers[1].imageDetails.imagePath

ExpectedUnitsOf(p) == p.spec.containers[1].envConfig.JUJU_EXPECTED_UNITS

\* C2: when the leader handles two configuration-path events in succession
\* with the same configuration, the same expected units and the applied spec
\* unchanged, the second invocation submits nothing (one set_spec call over
\* the two); a spec is submitted only if it differs from the applied one or
\* none is applied.
C2_SecondSubmissionSkipped ==
    [][(/\ HandlerStep
        /\ last'.event \in ConfigPathEvents /\ last'.unit = leader
        /\ last'.outcome = "returned"
        /\ last.event \in ConfigPathEvents /\ last.unit = leader
        /\ last.outcome = "returned" /\ Submits(last) = 1
        /\ podSpec # NoSpec
        /\ ImageOf(podSpec) = config["image"]
        /\ ExpectedUnitsOf(podSpec) = join(<<" ">>, expected_units))
        => Submits(last') = 0]_vars

\* C3: every invocation for start, config_changed, upgrade_charm,
\* update_status or stop writes the unit status, and the last value written
\* is not the in-progress status "Configuring pod".
C3_StatusWrittenAtEnd ==
    last.event \in ConfigPathEvents \cup {"update_status", "stop"} =>
        LET w == Writes(last.trace)
        IN  /\ Len(w) > 0
            /\ w[Len(w)] # StatusWrite(MaintenanceStatus("Configuring pod"))

\* C4: a configuration-path event handled while the configuration lacks
\* "image" ends with the unit status Blocked and without a set_spec call,
\* on the leader and on a non-leader.
C4_MissingImageBlocked ==
    [][(/\ HandlerStep
        /\ last'.event \in ConfigPathEvents
        /\ "image" \notin DOMAIN config)
        => /\ unitStatus'[last'.unit].kind = "blocked"
           /\ Submits(last') = 0]_vars

\* C5: when the leader handles a configuration-path event with a valid
\* configuration, no call failing, and Redis is not ready, the handler ends
\* with the unit status Waiting (not Active) and defers the event.
C5_NotReadyDefers ==
    [][(/\ HandlerStep
        /\ last'.event \in ConfigPathEvents /\ last'.unit = leader
        /\ "image" \in DOMAIN config
        /\ last'.outcome = "returned"
        /\ ~ready)
        => /\ unitStatus'[last'.unit].kind = "waiting"
           /\ Count(last'.trace, "event.defer") = 1]_vars

\* C6: start, config_changed, upgrade_charm or update_status
\* handled by a unit that is not leader ends with the unit status Active.
C6_NonLeaderActive ==
    [][(/\ HandlerStep
        /\ last'.event \in ConfigPathEvents \cup {"update_status"}
        /\ last'.unit # leader)
        => unitStatus'[last'.unit].kind = "active"]_vars

\* C7: no invocation ends with an exception reaching the dispatcher; when a
\* call made by the handler fails, the unit status it ends with is Blocked
\* or Waiting.
C7_NoFailureEscapes ==
    last.event # "none" =>
        /\ last.outcome = "returned"
        /\ (\E i \in 1..Len(last.trace) : last.trace[i].arg = "raised")
                => EndStatus.kind \in {"blocked", "waiting"}

\* C8: when the leader's handling of start, config_changed or upgrade_charm
\* returns, the applied pod spec carries the image of the configuration and
\* the expected units of the goal state current at that event.
C8_AppliedSpecCurrent ==
    [][(/\ HandlerStep
        /\ last'.event \in ConfigPathEvents /\ last'.unit = leader
        /\ last'.outcome = "returned")
        => /\ podSpec' # NoSpec
           /\ "image" \in DOMAIN config
           /\ ImageOf(podSpec') = config["image"]
           /\ ExpectedUnitsOf(podSpec') = join(<<" ">>, sorted(goal_units(goal)))
           /\ Submits(last') = 1]_vars

\* C8 witness: after a configuration change to redis:5.0 the leader handled
\* config_changed and the applied spec names that image and the unit listed.
C8_Witness ==
    /\ last.event = "config_changed" /\ last.unit = leader
    /\ last.outcome = "returned"
    /\ config = [image |-> "redis:5.0"]
    /\ goal_units(goal) = <<Redis10>>
    /\ podSpec # NoSpec
    /\ ImageOf(podSpec) = "redis:5.0"
    /\ ExpectedUnitsOf(podSpec) = Redis10

\* C9: expected_units returns a permutation of the goal state's unit names
\* in non-decreasing order of their unit numbers (redis/2 before redis/10),
\* and the empty list when "units" is absent or empty.
C9_ExpectedUnitsSorted ==
    peers.evaluated =>
        /\ IsPermutation(peers.value, goal_units(goal))
        /\ \A i, j \in 1..Len(peers.value) :
            i < j => UnitNumber(peers.value[i]) <= UnitNumber(peers.value[j])
        /\ (goal = GoalStateNoUnits \/ goal_units(goal) = <<>>) => peers.value = <<>>
        /\ (goal_units(goal) = <<Redis10, Redis2>>) => peers.value = <<Redis2, Redis10>>

\* C9 witness: a goal state listing redis/10, redis/2, redis/1 in that order
\* was sorted to redis/1, redis/2, redis/10.
C9_Witness ==
    /\ peers.evaluated
    /\ goal_units(goal) = <<Redis10, Redis2, Redis1>>
    /\ peers.value = <<Redis1, Redis2, Redis10>>

\* C10: validity is checked before leadership, and leadership before any
\* other call: a configuration-path event handled by a unit that is not
\* leader ends Blocked when the configuration lacks "image", and makes no
\* call that reads the configuration, builds or submits a spec or probes
\* Redis.
C10_ValidityBeforeLeadership ==
    [][(/\ HandlerStep
        /\ last'.event \in ConfigPathEvents
        /\ last'.unit # leader)
        => /\ "image" \notin DOMAIN config
                => unitStatus'[last'.unit].kind = "blocked"
           /\ \A i \in 1..Len(last'.trace) : last'.trace[i].call \notin OutboundCalls]_vars

\* The persisted initialization flag: RedisCharm declares no stored state and
\* no handler sets one, so the flag is false in every state.
InitializationFlag == FALSE

\* C11: a stop event, in any state, sets the unit status to Maintenance and
\* has no other effect: no spec is submitted, the applied spec and the
\* application status are unchanged, nothing is persisted and no deferral is
\* requested.
C11_StopSetsMaintenance ==
    [][(HandlerStep /\ last'.event = "stop")
        => /\ unitStatus'[last'.unit].kind = "maintenance"
           /\ \A u \in Units \ {last'.unit} : unitStatus'[u] = unitStatus[u]
           /\ podSpec' = podSpec /\ appStatus' = appStatus
           /\ \A i \in 1..Len(last'.trace) :
                last'.trace[i].call \notin {"set_spec", "app.status", "event.defer"}]_vars

\* C12: an update_status event handled by the leader requests no deferral and
\* submits no spec; it ends Waiting when Redis is not ready or the
\* initialization flag is false, and ends Active only when Redis is ready and
\* the flag is true.
C12_UpdateStatusReports ==
    [][(HandlerStep /\ last'.event = "update_status" /\ last'.unit = leader)
        => /\ Count(last'.trace, "event.defer") = 0
           /\ Submits(last') = 0 /\ podSpec' = podSpec
           /\ (~ready \/ ~InitializationFlag)
                => unitStatus'[last'.unit].kind = "waiting"
           /\ unitStatus'[last'.unit].kind = "active"
                => (ready /\ InitializationFlag)]_vars

\* C13: when the leader handles start with a configuration that has "image",
\* no call failing and Redis ready, the invocation ends with the
\* initialization flag true, the unit status Active and the application
\* status Active.
C13_StartInitializes ==
    [][(/\ HandlerStep
        /\ last'.event = "start" /\ last'.unit = leader
        /\ "image" \in DOMAIN config
        /\ last'.outcome = "returned"
        /\ ready)
        => /\ InitializationFlag
           /\ unitStatus'[last'.unit].kind = "active"
           /\ appStatus'.kind = "active"]_vars

\* C15: is_ready never raises to its caller, returns False whenever the
\* connection to (host, port) fails, and returns True only when the service
\* is reachable.
C15_ProbeReportsReachability ==
    \A i \in 1..Len(probes) :
        /\ probes[i].outcome = "returned"
        /\ ~probes[i].reachable => probes[i].result = FALSE
        /\ probes[i].result = TRUE => probes[i].reachable

\* C16: the builder is a deterministic function of its inputs and performs
\* no I/O: two builds from the same name, port and image information give
\* equal pod specs and equal pod resources, even when the goal state changed
\* between them.
C16_BuilderDeterministic ==
    \A i, j \in 1..Len(builds) :
        (/\ builds[i].name = builds[j].name
         /\ builds[i].port = builds[j].port
         /\ builds[i].image_info = builds[j].image_info)
        => /\ builds[i].spec = builds[j].spec
           /\ builds[i].resources = builds[j].resources

\* C17: in an invocation on the leader the unit status is set to
\* Maintenance("Configuring pod") before the spec is built and submitted, and
\* to Active("Pod configured") only after that invocation's set_spec call
\* returned; an invocation that has just ended with Active("Pod configured")
\* made exactly one set_spec call, and an invocation whose set_spec call
\* failed does not leave the unit Active.
C17_StatusBracketsSubmission ==
    LET t == last.trace
        configuring == [call |-> "unit.status", arg |-> "maintenance", msg |-> "Configuring pod"]
        configured == [call |-> "unit.status", arg |-> "active", msg |-> "Pod configured"]
    IN  /\ \A i \in 1..Len(t) :
            t[i].call \in {"goal_state", "config", "set_spec"}
                => \E j \in 1..(i - 1) : t[j] = configuring
        /\ \A i \in 1..Len(t) :
            t[i] = configured
                => \E j \in 1..(i - 1) : t[j].call = "set_spec" /\ t[j].arg = "ok"
        /\ (Len(t) > 0 /\ t[Len(t)] = configured)
                => /\ Cardinality({i \in 1..Len(t) : t[i].call = "set_spec"}) = 1
                   /\ unitStatus[last.unit] = [kind |-> "active", msg |-> "Pod configured"]
        /\ (\E i \in 1..Len(t) : t[i].call = "set_spec" /\ t[i].arg = "raised")
                => unitStatus[last.unit].kind # "active"

\* C17 witness: the leader's invocation has just returned after one set_spec
\* call that succeeded, the unit is Active("Pod configured"), and the status
\* write "Configuring pod" came first in it.
C17_Witness ==
    /\ last.unit \in Units /\ last.unit = leader
    /\ last.outcome = "returned"
    /\ unitStatus[last.unit] = ActiveStatus("Pod configured")
    /\ Submits(last) = 1
    /\ podSpec # NoSpec
    /\ last.trace[2] = StatusWrite(MaintenanceStatus("Configuring pod"))
    /\ last.trace[Len(last.trace)] = StatusWrite(ActiveStatus("Pod configured"))

\* C18: leader_elected runs the same handler as start, config_changed and
\* upgrade_charm: delivered to the unit that has become leader, it submits
\* the spec and ends Active; a unit that is not leader submits nothing on
\* any of the four events, and its invocation changes nothing but its own
\* unit status.
C18_LeaderElectedReconfigures ==
    [][(HandlerStep /\ last'.event \in {"start", "leader_elected", "config_changed",
                                         "upgrade_charm"})
        => /\ (last'.event = "leader_elected" /\ last'.unit = leader)
                => /\ Submits(last') = 1
                   /\ podSpec' # NoSpec
                   /\ unitStatus'[last'.unit].kind = "active"
           /\ last'.unit # leader
                => /\ Submits(last') = 0
                   /\ \A i \in 1..Len(last'.trace) :
                        last'.trace[i].call \notin OutboundCalls
                   /\ podSpec' = podSpec /\ appStatus' = appStatus
                   /\ \A u \in Units \ {last'.unit} : unitStatus'[u] = unitStatus[u]]_vars

============================================================================
